---- MODULE Spec2Model ----
(***************************************************************************)
(* Multi-agent committee (src/app/multi_agent_committee.py) and the        *)
(* session loop that drives it (src/app/multi_agent_runner.py).            *)
(*                                                                         *)
(* Confidences are kept in hundredths (80, 85, 90).  Python sums them as   *)
(* doubles; for groups of at most three members the double sum does not    *)
(* depend on the order of the addends, so the integer sums order the       *)
(* groups exactly as the code does for the committee sizes modelled here.  *)
(* A vote key is the pair <<type, target>>; the code joins both with "::", *)
(* which is injective because no action type contains a colon.             *)
(***************************************************************************)
EXTENDS Integers, Sequences, FiniteSets, TLC

\* ---------------------------------------------------------------- bounds
NumAgents == 3
MaxTurnsLoop == 4
MaxTurnsGuard == 4
MaxTurnsSecurity == 3
MaxTurnsFill == 5
MaxTurnsHistory == 7
NumModels == 3

\* committee size of the modelled sessions (parameter num_agents)
SessionAgents == 1

\* ---------------------------------------------------------------- actions
\* payload: None, the empty dict, or a dict; value "" stands for a dict
\* without a "value" key (dict.get("value", "") reads it as "").
NoPayload == [kind |-> "none", value |-> ""]
EmptyDict == [kind |-> "empty", value |-> ""]
Dict(v) == [kind |-> "dict", value |-> v]

\* Python truthiness of Optional[Dict]: None and {} are falsy
Truthy(p) == p.kind = "dict"

\* payload.get("value", "") guarded by the isinstance / truthiness tests
PayloadValue(p) == IF p.kind = "dict" THEN p.value ELSE ""

\* payload values that are JSON numbers; every other value is a string
NumberValues == {"int:10"}
IsString(v) == v \notin NumberValues

Action(t, g, p) == [type |-> t, target |-> g, payload |-> p]

VALID_TYPES == {"tap", "type", "scroll", "navigate", "upload", "report", "click", "fill"}

\* substring tests of the runner over the target vocabulary of the model
HasAddToCart(g) == g \in {".add-to-cart", "#add-to-cart-2"}
HasSearchButton(g) == g \in {".search-button"}
StartsWithSearchInput(g) == g \in {"#searchInput"}
HasGoToCart(g) == g \in {".go-to-cart"}
HasCart(g) == g \in {"/cart"}
HasSearch(u) == u \in {"/search?q=a"}

\* ---------------------------------------------------------------- agent
\* A reply of the LLM client: emit_json either raises (timeout, no JSON
\* object in the output) or returns a dict.
Timeout == [ok |-> FALSE, data |-> Action("none", "", NoPayload)]
Reply(a) == [ok |-> TRUE, data |-> a]
Malformed == Reply(Action("hover", "#x", NoPayload))
Replies(rep) == {Timeout, Malformed} \cup {Reply(a) : a \in rep}

\* LLMUserAgent.step raises exactly when emit_json raises
StepRaises(r) == ~r.ok

\* LLMUserAgent.step: a dict that fails the Action schema becomes the
\* fallback report action
StepAction(r) ==
    IF r.data.type \in VALID_TYPES
    THEN r.data
    ELSE Action("report", "agent/schema", Dict(""))

\* ---------------------------------------------------------------- committee
AgentProposal(id, a, c) == [agent_id |-> id, action |-> a, confidence |-> c]

RECURSIVE Round1From(_, _, _)
Round1From(replies, i, n) ==
    IF i > n THEN <<>>
    ELSE IF StepRaises(replies[i])
         THEN Round1From(replies, i + 1, n)
         ELSE <<AgentProposal(i, StepAction(replies[i]), 80)>>
              \o Round1From(replies, i + 1, n)

\* variant: every agent is asked twice
Round1Twice(replies, n) == Round1From(replies, 1, n) \o Round1From(replies, 1, n)

\* _round1_independent over agents 1..n
Round1(replies, n) == Round1From(replies, 1, n)

\* round1_proposals[i] if i < len(round1_proposals) else None, for the
\* agent with 0-based index i (1-based position pos = i + 1)
Original(round1_proposals, pos) ==
    IF pos <= Len(round1_proposals) THEN <<round1_proposals[pos]>> ELSE <<>>

Changed(original, a) ==
    /\ original # <<>>
    /\ (original[1].action.type # a.type \/ original[1].action.target # a.target)

RECURSIVE Round2From(_, _, _, _)
Round2From(replies, round1_proposals, i, n) ==
    IF i > n THEN <<>>
    ELSE IF StepRaises(replies[i])
         THEN Round2From(replies, round1_proposals, i + 1, n)
         ELSE LET a == StepAction(replies[i])
                  changed == Changed(Original(round1_proposals, i), a)
              IN  <<AgentProposal(i, a, IF ~changed THEN 90 ELSE 85)>>
                  \o Round2From(replies, round1_proposals, i + 1, n)

\* variant: only the agents that have a Round-1 proposal are asked again
Round2OfRound1Agents(replies, round1_proposals, n) ==
    SelectSeq(Round2From(replies, round1_proposals, 1, n),
              LAMBDA p : \E j \in 1..Len(round1_proposals) :
                            round1_proposals[j].agent_id = p.agent_id)

\* _round2_discussion over agents 1..n
Round2(replies, round1_proposals, n) == Round2From(replies, round1_proposals, 1, n)

Key(p) == <<p.action.type, p.action.target>>

\* keys of action_votes in insertion order
RECURSIVE KeysInOrder(_)
KeysInOrder(proposals) ==
    IF proposals = <<>> THEN <<>>
    ELSE LET init == KeysInOrder(SubSeq(proposals, 1, Len(proposals) - 1))
             k == Key(proposals[Len(proposals)])
         IN  IF \E j \in 1..Len(init) : init[j] = k THEN init ELSE Append(init, k)

\* action_votes[key]
Voters(proposals, k) == SelectSeq(proposals, LAMBDA p : Key(p) = k)

RECURSIVE SumConfidence(_)
SumConfidence(voters) ==
    IF voters = <<>> THEN 0
    ELSE voters[1].confidence + SumConfidence(Tail(voters))

\* vote_scores[key]
VoteScore(proposals, k) == SumConfidence(Voters(proposals, k))

\* variant: a later key with an equal score replaces the candidate
RECURSIVE MaxKeyFromLast(_, _, _, _)
MaxKeyFromLast(proposals, keys, i, best) ==
    IF i > Len(keys) THEN best
    ELSE IF VoteScore(proposals, keys[i]) >= VoteScore(proposals, best)
         THEN MaxKeyFromLast(proposals, keys, i + 1, keys[i])
         ELSE MaxKeyFromLast(proposals, keys, i + 1, best)

\* max(vote_scores, key=vote_scores.get) walks the keys in insertion order and
\* replaces its candidate only by a key with a strictly greater score
RECURSIVE MaxKeyFrom(_, _, _, _)
MaxKeyFrom(proposals, keys, i, best) ==
    IF i > Len(keys) THEN best
    ELSE IF VoteScore(proposals, keys[i]) > VoteScore(proposals, best)
         THEN MaxKeyFrom(proposals, keys, i + 1, keys[i])
         ELSE MaxKeyFrom(proposals, keys, i + 1, best)

WinningKey(proposals) ==
    LET keys == KeysInOrder(proposals)
    IN  MaxKeyFrom(proposals, keys, 2, keys[1])

\* _round3_consensus raises (max of an empty dict) when there is no proposal
Round3Raises(proposals) == proposals = <<>>

\* variant: the action of the last proposal of the winning group
ConsensusActionLast(proposals) ==
    Voters(proposals, WinningKey(proposals))[
        Len(Voters(proposals, WinningKey(proposals)))].action

\* line 202: winning_proposals[0].action
ConsensusAction(proposals) == Voters(proposals, WinningKey(proposals))[1].action

\* confidence_scores without the consensus_strength entry: agent id -> confidence
AgentConfidence(proposals) ==
    [id \in {proposals[j].agent_id : j \in 1..Len(proposals)} |->
        LET last == CHOOSE j \in 1..Len(proposals) :
                       /\ proposals[j].agent_id = id
                       /\ \A m \in (j + 1)..Len(proposals) : proposals[m].agent_id # id
        IN  proposals[last].confidence]

\* variant: the score is divided by the number of configured agents
ConsensusStrengthOverAgents(proposals) ==
    <<VoteScore(proposals, WinningKey(proposals)), NumAgents>>

\* consensus_strength = vote_scores[winning_key] / len(proposals), as the
\* fraction <<numerator, denominator>> (hundredths over a count)
ConsensusStrength(proposals) ==
    <<VoteScore(proposals, WinningKey(proposals)), Len(proposals)>>

NoAction == Action("none", "", NoPayload)

\* ---------------------------------------------------------------- state
VARIABLES
    \* one decide() call of MultiAgentCommittee
    cpc,                \* "round1", "round2", "round3", "returned", "raised"
    replies1,           \* what the LLM clients answered in Round 1 (per agent)
    replies2,           \* what the LLM clients answered in Round 2 (per agent)
    round1_proposals,
    round2_proposals,
    result,             \* [consensus_action, all_proposals, confidence_scores, strength]
    calls,              \* agent.step invocations of this decide(): <<round, agent>>
    discussion_context, \* proposals_summary shown in Round 2: <<agent_id, type, target>>
    \* one run_multi_agent_session call
    pc,
    max_turns,
    is_security_test,
    turn_idx,
    success,
    status,
    page_url,           \* browser.page.url without the base url
    current_url,
    flags,              \* search_add_done, min_filled, max_filled, filtered_add_done, cart_visited
    action_history,
    decided,            \* the action committee.decide returned in this turn
    consensus_action,
    rows,               \* storage.current_rows
    executed,           \* calls of browser.execute: <<turn, action>>
    exit_path,          \* which break (or the end of the range) left the loop
    cancel_requested,   \* the caller has cancelled the task that awaits the session
    \* one AgentPool.run_turn call (src/multi_agent_router.py)
    policy,             \* self.policy: "failover" or "committee"
    rpc,                \* "loop" (in the for loop), "returned", "raised"
    looking_to_signup,  \* the persona has a goal that mentions signing up
    committee_models,   \* random.sample of the model names, in sample order
    router_calls,       \* models whose agent.step was invoked, in order
    per_agent_results,
    actions_list,       \* the actions that passed both oracles
    router_result       \* the dict returned by run_turn

cvars == <<cpc, replies1, replies2, round1_proposals, round2_proposals, result, calls,
           discussion_context>>
svars == <<pc, max_turns, is_security_test, turn_idx, success, status, page_url,
           current_url, flags, action_history, decided, consensus_action, rows,
           executed, exit_path, cancel_requested>>
rvars == <<policy, rpc, looking_to_signup, committee_models, router_calls, per_agent_results,
           actions_list, router_result>>
vars == <<cvars, svars, rvars>>

Agents == 1..NumAgents

\* what the agents of the committee specification may answer
CommitteeActs ==
    { Action("click", "#add", Dict("")),
      Action("click", "#add", Dict("x")),
      Action("navigate", "/cart", NoPayload) }

NoResult == [consensus_action |-> NoAction, all_proposals |-> <<>>,
             confidence_scores |-> <<>>, strength |-> <<0, 1>>]

\* the session variables while only decide() is studied
SessionIdle ==
    /\ pc = "idle"
    /\ max_turns = 0
    /\ is_security_test = FALSE
    /\ turn_idx = 0
    /\ success = TRUE
    /\ status = "none"
    /\ page_url = "/"
    /\ current_url = "/"
    /\ flags = [search_add_done |-> FALSE, min_filled |-> FALSE, max_filled |-> FALSE,
                filtered_add_done |-> FALSE, cart_visited |-> FALSE]
    /\ action_history = <<>>
    /\ decided = NoAction
    /\ consensus_action = NoAction
    /\ rows = <<>>
    /\ executed = <<>>
    /\ exit_path = "none"
    /\ cancel_requested = FALSE

NoRouterResult == [verdict |-> NoAction, per_agent_results |-> <<>>,
                   routing_policy |-> "none", consensus |-> FALSE]

\* the router variables while the committee or the session is studied
RouterIdle ==
    /\ policy = "none"
    /\ rpc = "idle"
    /\ looking_to_signup = FALSE
    /\ committee_models = <<>>
    /\ router_calls = <<>>
    /\ per_agent_results = <<>>
    /\ actions_list = <<>>
    /\ router_result = NoRouterResult

\* the committee variables while the session is studied
CommitteeIdle ==
    /\ cpc = "idle"
    /\ replies1 = <<>>
    /\ replies2 = <<>>
    /\ round1_proposals = <<>>
    /\ round2_proposals = <<>>
    /\ result = NoResult
    /\ calls = <<>>
    /\ discussion_context = <<>>
    /\ RouterIdle

\* ---------------------------------------------------------------- decide()
InitCommittee ==
    /\ cpc = "round1"
    /\ replies1 = <<>>
    /\ replies2 = <<>>
    /\ round1_proposals = <<>>
    /\ round2_proposals = <<>>
    /\ result = NoResult
    /\ calls = <<>>
    /\ discussion_context = <<>>
    /\ SessionIdle
    /\ RouterIdle

\* lines 143-146: one line per Round-1 proposal
ProposalsSummary(proposals) ==
    [j \in 1..Len(proposals) |->
        <<proposals[j].agent_id, proposals[j].action.type, proposals[j].action.target>>]

\* the invocations of one round, in the order of the for loop
CallsOfRound(r) == [i \in Agents |-> <<r, i>>]

\* decide(), Round 1: every agent is asked once, in order
DoRound1 ==
    /\ cpc = "round1"
    /\ \E rs \in [Agents -> Replies(CommitteeActs)] :
          /\ replies1' = rs
          /\ round1_proposals' = Round1(rs, NumAgents)
    /\ calls' = calls \o CallsOfRound(1)
    /\ cpc' = "round2"
    /\ UNCHANGED <<replies2, round2_proposals, result, discussion_context, svars, rvars>>

\* decide(), Round 2: every agent is asked again, whatever Round 1 returned
DoRound2 ==
    /\ cpc = "round2"
    /\ \E rs \in [Agents -> Replies(CommitteeActs)] :
          /\ replies2' = rs
          /\ round2_proposals' = Round2(rs, round1_proposals, NumAgents)
    /\ discussion_context' = ProposalsSummary(round1_proposals)
    /\ calls' = calls \o CallsOfRound(2)
    /\ cpc' = "round3"
    /\ UNCHANGED <<replies1, round1_proposals, result, svars, rvars>>

\* variant: an empty Round 2 yields a default consensus instead of an error
DoRound3ReturnsDefault ==
    /\ cpc = "round3"
    /\ cpc' = "returned"
    /\ result' = IF Round3Raises(round2_proposals)
                 THEN [consensus_action |-> Action("report", "no_consensus", NoPayload),
                       all_proposals |-> round1_proposals \o round2_proposals,
                       confidence_scores |-> <<>>,
                       strength |-> <<0, 1>>]
                 ELSE [consensus_action |-> ConsensusAction(round2_proposals),
                       all_proposals |-> round1_proposals \o round2_proposals,
                       confidence_scores |-> AgentConfidence(round2_proposals),
                       strength |-> ConsensusStrength(round2_proposals)]
    /\ UNCHANGED <<replies1, replies2, round1_proposals, round2_proposals, calls,
                   discussion_context, svars, rvars>>

\* decide(), Round 3 and the return statement
DoRound3 ==
    /\ cpc = "round3"
    /\ IF Round3Raises(round2_proposals)
       THEN /\ cpc' = "raised"
            /\ UNCHANGED result
       ELSE /\ cpc' = "returned"
            /\ result' = [consensus_action |-> ConsensusAction(round2_proposals),
                          all_proposals |-> round1_proposals \o round2_proposals,
                          confidence_scores |-> AgentConfidence(round2_proposals),
                          strength |-> ConsensusStrength(round2_proposals)]
    /\ UNCHANGED <<replies1, replies2, round1_proposals, round2_proposals, calls,
                   discussion_context, svars, rvars>>

NextCommittee == DoRound1 \/ DoRound2 \/ DoRound3

SpecCommittee == InitCommittee /\ [][NextCommittee]_vars

\* ---------------------------------------------------------------- decide(), call by call
\* The same decide(), one agent.step call per step: replies1 and replies2 grow
\* by one reply per call, in the order of the for loops.

\* what an agent may answer in the call-by-call specification
CallActs ==
    { Action("click", "#add", Dict("")),
      Action("navigate", "/cart", NoPayload) }

\* variant: Round 2 may start as soon as one Round-1 call has resolved
Round1Begun == Len(replies1) >= 1

\* the for loop of _round1_independent has ended: every agent's call has
\* returned or raised (lines 118-132)
Round1Resolved == Len(replies1) = NumAgents

\* the for loop of _round2_discussion has ended (lines 157-179)
Round2Resolved == Len(replies2) = NumAgents

\* number of agent.step invocations of round r so far
Invoked(r) == Cardinality({b \in 1..Len(calls) : calls[b][1] = r})

\* lines 118-120: the next agent of Round 1 is called; the call blocks the loop
InvokeRound1 ==
    /\ cpc = "round1"
    /\ ~Round1Resolved
    /\ Invoked(1) = Len(replies1)
    /\ calls' = Append(calls, <<1, Len(replies1) + 1>>)
    /\ UNCHANGED <<cpc, replies1, replies2, round1_proposals, round2_proposals, result,
                   discussion_context, svars, rvars>>

\* lines 120-130: the pending call returns an action or raises
ReturnRound1 ==
    /\ cpc = "round1"
    /\ Invoked(1) = Len(replies1) + 1
    /\ LET i == Len(replies1) + 1
       IN  \E r \in Replies(CallActs) :
              /\ replies1' = Append(replies1, r)
              /\ round1_proposals' =
                    IF StepRaises(r) THEN round1_proposals
                    ELSE Append(round1_proposals, AgentProposal(i, StepAction(r), 80))
    /\ UNCHANGED <<cpc, replies2, round2_proposals, result, calls, discussion_context,
                   svars, rvars>>

\* lines 132, 103 and 143-154: Round 1 returns its list and Round 2 builds the
\* discussion context from it
BuildContext ==
    /\ cpc = "round1"
    /\ Round1Resolved
    /\ discussion_context' = ProposalsSummary(round1_proposals)
    /\ cpc' = "round2"
    /\ UNCHANGED <<replies1, replies2, round1_proposals, round2_proposals, result, calls,
                   svars, rvars>>

\* lines 157-161: the next agent of Round 2 is called
InvokeRound2 ==
    /\ cpc = "round2"
    /\ ~Round2Resolved
    /\ Invoked(2) = Len(replies2)
    /\ calls' = Append(calls, <<2, Len(replies2) + 1>>)
    /\ UNCHANGED <<cpc, replies1, replies2, round1_proposals, round2_proposals, result,
                   discussion_context, svars, rvars>>

\* lines 161-177: the pending call returns an action or raises
ReturnRound2 ==
    /\ cpc = "round2"
    /\ Invoked(2) = Len(replies2) + 1
    /\ LET i == Len(replies2) + 1
       IN  \E r \in Replies(CallActs) :
              /\ replies2' = Append(replies2, r)
              /\ round2_proposals' =
                    IF StepRaises(r) THEN round2_proposals
                    ELSE LET a == StepAction(r)
                             changed == Changed(Original(round1_proposals, i), a)
                         IN  Append(round2_proposals,
                                    AgentProposal(i, a, IF ~changed THEN 90 ELSE 85))
    /\ UNCHANGED <<cpc, replies1, round1_proposals, result, calls, discussion_context,
                   svars, rvars>>

\* lines 179 and 107: Round 2 returns its list and the vote is called
StartVote ==
    /\ cpc = "round2"
    /\ Round2Resolved
    /\ cpc' = "round3"
    /\ UNCHANGED <<replies1, replies2, round1_proposals, round2_proposals, result, calls,
                   discussion_context, svars, rvars>>

NextCalls ==
    \/ InvokeRound1
    \/ ReturnRound1
    \/ BuildContext
    \/ InvokeRound2
    \/ ReturnRound2
    \/ StartVote
    \/ DoRound3

SpecCalls == InitCommittee /\ [][NextCalls]_vars

\* The session is a coroutine that its caller awaits (experiments/runner.py
\* line 215); the caller's handle on a running session is the cancellation of
\* that task.  The request is raised while decide() runs; decide() is
\* synchronous and reads no flag, event or token between its rounds.
Cancel ==
    /\ cpc \in {"round1", "round2", "round3"}
    /\ ~cancel_requested
    /\ cancel_requested' = TRUE
    /\ UNCHANGED <<cvars, rvars, pc, max_turns, is_security_test, turn_idx, success, status,
                   page_url, current_url, flags, action_history, decided,
                   consensus_action, rows, executed, exit_path>>

NextCancel ==
    \/ NextCalls
    \/ Cancel

SpecCancel == InitCommittee /\ [][NextCancel]_vars

\* The steps of decide() itself are taken whenever they are enabled: the code
\* runs on.  Nothing in the committee or in the LLM client makes a pending
\* call return (no timeout argument, no watchdog), so the return of a call is
\* left to the source.
SpecCallsFair ==
    /\ SpecCalls
    /\ WF_vars(InvokeRound1)
    /\ WF_vars(BuildContext)
    /\ WF_vars(InvokeRound2)
    /\ WF_vars(StartVote)
    /\ WF_vars(DoRound3)

\* ---------------------------------------------------------------- committee properties
CommitteeDone == cpc \in {"returned", "raised"}

\* the vote key of the consensus action decide() returned
ReturnedKey == <<result.consensus_action.type, result.consensus_action.target>>

\* position of the first Round-2 proposal carrying key k
FirstPosition(k) ==
    CHOOSE j \in 1..Len(round2_proposals) :
        /\ Key(round2_proposals[j]) = k
        /\ \A m \in 1..(j - 1) : Key(round2_proposals[m]) # k

\* sum of the confidences of the Round-2 proposals carrying key k
RECURSIVE GroupScoreUpTo(_, _)
GroupScoreUpTo(k, n) ==
    IF n = 0 THEN 0
    ELSE GroupScoreUpTo(k, n - 1)
         + (IF Key(round2_proposals[n]) = k THEN round2_proposals[n].confidence ELSE 0)

GroupScore(k) == GroupScoreUpTo(k, Len(round2_proposals))

\* C2: the returned action belongs to a group whose summed confidence no other
\* group exceeds, and among the groups with that highest sum it is the one whose
\* first proposal comes earliest in the Round-2 list.
C2_HighestScoreFirstWins ==
    cpc = "returned" =>
        \A j \in 1..Len(round2_proposals) :
            LET k == Key(round2_proposals[j])
            IN  /\ GroupScore(k) <= GroupScore(ReturnedKey)
                /\ GroupScore(k) = GroupScore(ReturnedKey)
                      => FirstPosition(ReturnedKey) <= j

\* C2 witness: decide() returned although another group ties with the winner
C2_TieReached ==
    /\ cpc = "returned"
    /\ \E j \in 1..Len(round2_proposals) :
          /\ Key(round2_proposals[j]) # ReturnedKey
          /\ GroupScore(Key(round2_proposals[j])) = GroupScore(ReturnedKey)

\* C3: after Round 2 every proposal of an agent that also has a Round-1 proposal
\* carries 90 when type and target equal those of its own Round-1 proposal and 85
\* when they differ, whichever agents failed in Round 1.
C3_ComparedWithOwnRound1 ==
    cpc \in {"round3", "returned", "raised"} =>
        \A j \in 1..Len(round2_proposals) :
            \A m \in 1..Len(round1_proposals) :
                round1_proposals[m].agent_id = round2_proposals[j].agent_id =>
                    round2_proposals[j].confidence =
                        (IF /\ round1_proposals[m].action.type = round2_proposals[j].action.type
                            /\ round1_proposals[m].action.target = round2_proposals[j].action.target
                         THEN 90 ELSE 85)

\* C4: when Round 1 yields no proposal, decide() ends by raising and never
\* returns a consensus action.
C4_EmptyRound1Raises ==
    (CommitteeDone /\ round1_proposals = <<>>) => cpc = "raised"

\* a reply that is a JSON object but no valid Action (unknown action type)
IsMalformed(r) == r.ok /\ r.data.type \notin VALID_TYPES

\* C5: an agent whose reply violates the Action schema has no proposal in that
\* round, neither in Round 1 nor among the Round-2 proposals that are voted on.
C5_MalformedAgentOmitted ==
    /\ cpc \in {"round2", "round3", "returned", "raised"} =>
          \A i \in Agents : IsMalformed(replies1[i]) =>
              \A j \in 1..Len(round1_proposals) : round1_proposals[j].agent_id # i
    /\ cpc \in {"round3", "returned", "raised"} =>
          \A i \in Agents : IsMalformed(replies2[i]) =>
              \A j \in 1..Len(round2_proposals) : round2_proposals[j].agent_id # i

\* ---------------------------------------------------------------- guardrails
\* variant: rule 1 missing
GuardSearchAddOff(a, f, url) == a

\* rule 1 (lines 205-210)
GuardSearchAdd(a, f, url) ==
    IF f.search_add_done /\ HasSearch(url) /\ HasAddToCart(a.target)
    THEN Action("navigate", "/products", NoPayload)
    ELSE a

\* variant: rule 2 missing
GuardFilteredAddOff(a, f) == a

\* rule 2 (lines 213-217): two consecutive ifs, the second sees the first's output
GuardFilteredAdd(a, f) ==
    IF f.min_filled /\ f.max_filled /\ ~f.filtered_add_done
    THEN LET b == IF a.type = "fill" /\ StartsWithSearchInput(a.target)
                  THEN Action("click", ".add-to-cart", Dict(""))
                  ELSE a
         IN  IF b.type = "click" /\ HasSearchButton(b.target)
             THEN Action("click", ".add-to-cart", Dict(""))
             ELSE b
    ELSE a

\* variant: rule 3 asks for the maximum price first
GuardFiltersMaxFirst(a, f) ==
    IF /\ f.search_add_done
       /\ ~(f.min_filled /\ f.max_filled)
       /\ a.type = "click"
       /\ HasAddToCart(a.target)
    THEN IF ~f.max_filled
         THEN Action("fill", "#maxPrice", Dict("200"))
         ELSE Action("fill", "#minPrice", Dict("10"))
    ELSE a

\* rule 3 (lines 219-223)
GuardFiltersFirst(a, f) ==
    IF /\ f.search_add_done
       /\ ~(f.min_filled /\ f.max_filled)
       /\ a.type = "click"
       /\ HasAddToCart(a.target)
    THEN IF ~f.min_filled
         THEN Action("fill", "#minPrice", Dict("10"))
         ELSE IF ~f.max_filled
              THEN Action("fill", "#maxPrice", Dict("200"))
              ELSE a
    ELSE a

\* variant: rule 4 missing
GuardGoToCartOff(a, f) == a

\* rule 4 (lines 226-228)
GuardGoToCart(a, f) ==
    IF f.filtered_add_done /\ ~f.cart_visited
    THEN IF ~(a.type = "click" /\ (HasGoToCart(a.target) \/ HasCart(a.target)))
         THEN Action("click", ".go-to-cart", Dict(""))
         ELSE a
    ELSE a

\* the four rules in source order
ApplyGuardrails(a, f, url) ==
    GuardGoToCart(GuardFiltersFirst(GuardFilteredAdd(GuardSearchAdd(a, f, url), f), f), f)

\* ---------------------------------------------------------------- loop detection
\* action_history[-3:]
Recent3(h) == SubSeq(h, IF Len(h) >= 3 THEN Len(h) - 2 ELSE 1, Len(h))

IsSameAction(c, last) == c.type = last.type /\ c.target = last.target

\* variant: no retry exception
RetryNever(c, last) == FALSE

\* first branch of the loop check: a retry after a failed action is let through
RetryAfterFailure(c, last) == IsSameAction(c, last) /\ ~last.success

\* variant: the payload values are not compared
FillLoopSameValue(h, c, last) ==
    Cardinality({<<Recent3(h)[j].type, Recent3(h)[j].target>> :
                    j \in 1..Len(Recent3(h))}) <= 1

\* variant: the whole history is searched for another action, not its last three
FillLoopWholeHistory(h, c, last) ==
    IF PayloadValue(last.payload) # PayloadValue(c.payload)
    THEN FALSE
    ELSE Cardinality({<<h[j].type, h[j].target>> : j \in 1..Len(h)}) <= 1

\* lines 243-282: fill candidate with a truthy payload
FillLoop(h, c, last) ==
    IF PayloadValue(last.payload) # PayloadValue(c.payload)
    THEN FALSE
    ELSE Cardinality({<<Recent3(h)[j].type, Recent3(h)[j].target>> :
                         j \in 1..Len(Recent3(h))}) <= 1

\* sum(1 for a in action_history[-3:] if click on the candidate's target)
RecentSameClicks(h, c) ==
    Cardinality({j \in 1..Len(Recent3(h)) :
                    Recent3(h)[j].type = "click" /\ Recent3(h)[j].target = c.target})

\* variant: only clicks are ever blocked
OtherLoopClicksOnly(h, c, last) ==
    c.type = "click" /\ last.success /\ RecentSameClicks(h, c) >= 2

\* variant: one more repeated click is tolerated
OtherLoopLax(h, c, last) ==
    IF c.type = "click" /\ last.success
    THEN RecentSameClicks(h, c) >= 3
    ELSE TRUE

\* lines 283-310: should_block_loop
OtherLoop(h, c, last) ==
    IF c.type = "click" /\ last.success
    THEN RecentSameClicks(h, c) >= 2
    ELSE TRUE

\* variant: the candidate is compared with each of the last three entries
LoopDetectedInWindow(h, c) ==
    \E j \in 1..Len(Recent3(h)) : IsSameAction(c, Recent3(h)[j]) /\ Recent3(h)[j].success

\* TRUE when the loop check logs loop_detected and breaks (lines 233-329)
LoopDetected(h, c) ==
    IF h = <<>> THEN FALSE
    ELSE LET last == h[Len(h)]
         IN  IF RetryAfterFailure(c, last) THEN FALSE
             ELSE IF IsSameAction(c, last)
                  THEN IF c.type = "fill" /\ Truthy(c.payload)
                       THEN FillLoop(h, c, last)
                       ELSE OtherLoop(h, c, last)
                  ELSE FALSE

\* ---------------------------------------------------------------- validator
\* payload values and targets that match one of the safety patterns
Unsafe(a) == PayloadValue(a.payload) \in {"<script>"}

\* validate_action: the list of reasons
Reasons(a, disable_safety_checks) ==
    (IF a.type \notin VALID_TYPES THEN <<"invalid_type">> ELSE <<>>)
    \o (IF a.target = "" THEN <<"missing_target">> ELSE <<>>)
    \o (IF ~disable_safety_checks /\ Unsafe(a) THEN <<"safety">> ELSE <<>>)

Passed(a, disable_safety_checks) == Reasons(a, disable_safety_checks) = <<>>

\* ---------------------------------------------------------------- session
\* variant: every row is logged as a success
RowAlwaysOk(t, a, ok, validators) ==
    [turn |-> t, action_type |-> a.type, action_target |-> a.target,
     success |-> TRUE, validators |-> validators]

\* storage.log_turn (storage.py lines 62-116): the fields of a row that the
\* claims read
Row(t, a, ok, validators) ==
    [turn |-> t, action_type |-> a.type, action_target |-> a.target,
     success |-> ok, validators |-> validators]

NoFlags == [search_add_done |-> FALSE, min_filled |-> FALSE, max_filled |-> FALSE,
            filtered_add_done |-> FALSE, cart_visited |-> FALSE]

\* lines 31-85: the state before the first turn
InitSession(maxTurns, securityTests, pages) ==
    /\ pc = "loop"
    /\ max_turns = maxTurns
    /\ is_security_test \in securityTests
    /\ turn_idx = 0
    /\ success = TRUE
    /\ status = "none"
    /\ page_url \in pages
    /\ current_url = ""
    /\ flags = NoFlags
    /\ action_history = <<>>
    /\ decided = NoAction
    /\ consensus_action = NoAction
    /\ rows = <<>>
    /\ executed = <<>>
    /\ exit_path = "none"
    /\ cancel_requested = FALSE
    /\ CommitteeIdle

\* variant: the range runs one value further
BeginTurnOneMore ==
    /\ pc = "loop"
    /\ turn_idx <= max_turns
    /\ turn_idx' = turn_idx + 1
    /\ current_url' = page_url
    /\ flags' = IF HasCart(page_url) THEN [flags EXCEPT !.cart_visited = TRUE] ELSE flags
    /\ pc' = "decide"
    /\ UNCHANGED <<max_turns, is_security_test, cancel_requested, rvars,
                   success, status, page_url, action_history,
                   decided, consensus_action, rows, executed, exit_path, cvars>>

\* lines 87-101: next value of the range, URL capture, cart_visited from the URL
BeginTurn ==
    /\ pc = "loop"
    /\ turn_idx < max_turns
    /\ turn_idx' = turn_idx + 1
    /\ current_url' = page_url
    /\ flags' = IF HasCart(page_url) THEN [flags EXCEPT !.cart_visited = TRUE] ELSE flags
    /\ pc' = "decide"
    /\ UNCHANGED <<max_turns, is_security_test, cancel_requested, rvars,
                   success, status, page_url, action_history,
                   decided, consensus_action, rows, executed, exit_path, cvars>>

\* line 87: the range is exhausted
BudgetExhausted ==
    /\ pc = "loop"
    /\ turn_idx >= max_turns
    /\ exit_path' = "budget"
    /\ pc' = "cleanup"
    /\ UNCHANGED <<max_turns, is_security_test, cancel_requested, rvars,
                   turn_idx, success, status, page_url,
                   current_url, flags, action_history, decided, consensus_action, rows,
                   executed, cvars>>

\* variant: a failed decide is written to the turn log like the other failures
DecideRecordsFailure(rep) ==
    /\ pc = "decide"
    /\ \E rs1 \in [1..SessionAgents -> Replies(rep)],
          rs2 \in [1..SessionAgents -> Replies(rep)] :
          LET r1 == Round1(rs1, SessionAgents)
              r2 == Round2(rs2, r1, SessionAgents)
          IN  IF Round3Raises(r2)
              THEN /\ success' = FALSE
                   /\ exit_path' = "decide_error"
                   /\ pc' = "cleanup"
                   /\ rows' = Append(rows, Row(turn_idx, NoAction, FALSE,
                                               <<"decide_error">>))
                   /\ UNCHANGED <<decided, consensus_action>>
              ELSE /\ decided' = ConsensusAction(r2)
                   /\ consensus_action' = ConsensusAction(r2)
                   /\ pc' = "guardrails"
                   /\ UNCHANGED <<success, exit_path, rows>>
    /\ UNCHANGED <<max_turns, is_security_test, cancel_requested, rvars,
                   turn_idx, status, page_url, current_url,
                   flags, action_history, executed, cvars>>

\* lines 199-202 and 331-334: committee.decide, atomically; it returns or raises
Decide(rep) ==
    /\ pc = "decide"
    /\ \E rs1 \in [1..SessionAgents -> Replies(rep)],
          rs2 \in [1..SessionAgents -> Replies(rep)] :
          LET r1 == Round1(rs1, SessionAgents)
              r2 == Round2(rs2, r1, SessionAgents)
          IN  IF Round3Raises(r2)
              THEN /\ success' = FALSE
                   /\ exit_path' = "decide_error"
                   /\ pc' = "cleanup"
                   /\ UNCHANGED <<decided, consensus_action>>
              ELSE /\ decided' = ConsensusAction(r2)
                   /\ consensus_action' = ConsensusAction(r2)
                   /\ pc' = "guardrails"
                   /\ UNCHANGED <<success, exit_path>>
    /\ UNCHANGED <<max_turns, is_security_test, cancel_requested, rvars,
                   turn_idx, status, page_url, current_url,
                   flags, action_history, rows, executed, cvars>>

\* lines 204-228
Guardrails ==
    /\ pc = "guardrails"
    /\ consensus_action' = ApplyGuardrails(consensus_action, flags, current_url)
    /\ pc' = "loopcheck"
    /\ UNCHANGED <<max_turns, is_security_test, cancel_requested, rvars,
                   turn_idx, success, status, page_url,
                   current_url, flags, action_history, decided, rows, executed,
                   exit_path, cvars>>

\* variant: the loop check looks at the committee's proposal
LoopCheckOnProposal ==
    /\ pc = "loopcheck"
    /\ IF LoopDetected(action_history, decided)
       THEN /\ rows' = Append(rows, Row(turn_idx, decided, FALSE, <<"loop_detected">>))
            /\ success' = FALSE
            /\ exit_path' = "loop"
            /\ pc' = "cleanup"
       ELSE /\ pc' = "validate"
            /\ UNCHANGED <<rows, success, exit_path>>
    /\ UNCHANGED <<max_turns, is_security_test, cancel_requested, rvars,
                   turn_idx, status, page_url, current_url,
                   flags, action_history, decided, consensus_action, executed, cvars>>

\* lines 233-329
LoopCheck ==
    /\ pc = "loopcheck"
    /\ IF LoopDetected(action_history, consensus_action)
       THEN /\ rows' = Append(rows, Row(turn_idx, consensus_action, FALSE, <<"loop_detected">>))
            /\ success' = FALSE
            /\ exit_path' = "loop"
            /\ pc' = "cleanup"
       ELSE /\ pc' = "validate"
            /\ UNCHANGED <<rows, success, exit_path>>
    /\ UNCHANGED <<max_turns, is_security_test, cancel_requested, rvars,
                   turn_idx, status, page_url, current_url,
                   flags, action_history, decided, consensus_action, executed, cvars>>

\* lines 338-364
Validate ==
    /\ pc = "validate"
    /\ IF ~Passed(consensus_action, is_security_test)
       THEN /\ rows' = Append(rows, Row(turn_idx, consensus_action, FALSE,
                                        Reasons(consensus_action, is_security_test)))
            /\ success' = FALSE
            /\ exit_path' = "validation"
            /\ pc' = "cleanup"
       ELSE /\ pc' = "execute"
            /\ UNCHANGED <<rows, success, exit_path>>
    /\ UNCHANGED <<max_turns, is_security_test, cancel_requested, rvars,
                   turn_idx, status, page_url, current_url,
                   flags, action_history, decided, consensus_action, executed, cvars>>

\* variant: every successful add counts as the filtered add
UpdateFlagsAnyAdd(f, a, url, newUrl) ==
    LET isAdd == a.type = "click" /\ HasAddToCart(a.target)
    IN  [search_add_done |-> f.search_add_done \/ (isAdd /\ HasSearch(url)),
         filtered_add_done |-> f.filtered_add_done \/ isAdd,
         min_filled |-> f.min_filled \/ (a.type = "fill" /\ a.target = "#minPrice"),
         max_filled |-> f.max_filled \/ (a.type = "fill" /\ a.target = "#maxPrice"),
         cart_visited |-> f.cart_visited \/ HasCart(newUrl)]

\* lines 403-414: the flags after an action judged successful
UpdateFlags(f, a, url, newUrl) ==
    LET isAdd == a.type = "click" /\ HasAddToCart(a.target)
    IN  [search_add_done |-> f.search_add_done \/ (isAdd /\ HasSearch(url)),
         filtered_add_done |-> f.filtered_add_done \/ (isAdd /\ f.min_filled /\ f.max_filled),
         min_filled |-> f.min_filled \/ (a.type = "fill" /\ a.target = "#minPrice"),
         max_filled |-> f.max_filled \/ (a.type = "fill" /\ a.target = "#maxPrice"),
         cart_visited |-> f.cart_visited \/ HasCart(newUrl)]

\* variant: the newest entry is dropped when the history is full
RememberDropsNewest(h, a, ok) ==
    LET h2 == Append(h, [type |-> a.type, target |-> a.target,
                         payload |-> IF Truthy(a.payload) THEN a.payload ELSE EmptyDict,
                         success |-> ok])
    IN  IF Len(h2) > 5 THEN SubSeq(h2, 1, 5) ELSE h2

\* lines 421-427 and 445-447
Remember(h, a, ok) ==
    LET h2 == Append(h, [type |-> a.type, target |-> a.target,
                         payload |-> IF Truthy(a.payload) THEN a.payload ELSE EmptyDict,
                         success |-> ok])
    IN  IF Len(h2) > 5 THEN Tail(h2) ELSE h2

\* variant: a report does not leave the loop
ReportNeverEnds(a) == FALSE

\* line 452: the report action breaks out of the loop
ReportEnds(a) == a.type = "report"

\* lines 430-444: the security-test tracking calls value.lower() on the value of
\* a fill payload, which raises AttributeError when the value is not a string
TrackingRaises(a, securityTest) ==
    /\ securityTest
    /\ a.type = "fill"
    /\ Truthy(a.payload)
    /\ ~IsString(PayloadValue(a.payload))

\* variant: the row of the turn log carries the judgement of the observation
ExecuteLogsJudgement(pages) ==
    /\ pc = "execute"
    /\ executed' = Append(executed, <<turn_idx, consensus_action>>)
    /\ \E outcome \in {"ok", "error_marker", "raise"}, newUrl \in pages :
          IF outcome = "raise"
          THEN /\ rows' = Append(rows, Row(turn_idx, consensus_action, FALSE,
                                           <<"execution_error">>))
               /\ success' = FALSE
               /\ exit_path' = "exec_error"
               /\ pc' = "cleanup"
               /\ UNCHANGED <<page_url, flags, action_history>>
          ELSE IF TrackingRaises(consensus_action, is_security_test)
          THEN /\ rows' = rows \o <<Row(turn_idx, consensus_action, TRUE, <<"ok">>),
                                    Row(turn_idx, consensus_action, FALSE,
                                        <<"execution_error">>)>>
               /\ page_url' = newUrl
               /\ flags' = IF outcome = "ok"
                           THEN UpdateFlags(flags, consensus_action, current_url, newUrl)
                           ELSE flags
               /\ action_history' = Append(action_history,
                                           [type |-> consensus_action.type,
                                            target |-> consensus_action.target,
                                            payload |-> consensus_action.payload,
                                            success |-> outcome = "ok"])
               /\ success' = FALSE
               /\ exit_path' = "exec_error"
               /\ pc' = "cleanup"
          ELSE /\ rows' = Append(rows, Row(turn_idx, consensus_action, outcome = "ok",
                                           <<"ok">>))
               /\ page_url' = newUrl
               /\ flags' = IF outcome = "ok"
                           THEN UpdateFlags(flags, consensus_action, current_url, newUrl)
                           ELSE flags
               /\ action_history' = Remember(action_history, consensus_action, outcome = "ok")
               /\ IF ReportEnds(consensus_action)
                  THEN exit_path' = "report" /\ pc' = "cleanup"
                  ELSE exit_path' = exit_path /\ pc' = "loop"
               /\ UNCHANGED success
    /\ UNCHANGED <<max_turns, is_security_test, cancel_requested, rvars,
                   turn_idx, status, current_url, decided,
                   consensus_action, cvars>>

\* lines 369-478: browser.execute returns an observation (with or without an
\* error marker) or raises; the page may have moved to any page of the AUT.
\* An exception raised after the success row was written (lines 379-395) is
\* caught by the same handler, which writes its own row.
Execute(pages) ==
    /\ pc = "execute"
    /\ executed' = Append(executed, <<turn_idx, consensus_action>>)
    /\ \E outcome \in {"ok", "error_marker", "raise"}, newUrl \in pages :
          IF outcome = "raise"
          THEN /\ rows' = Append(rows, Row(turn_idx, consensus_action, FALSE,
                                           <<"execution_error">>))
               /\ success' = FALSE
               /\ exit_path' = "exec_error"
               /\ pc' = "cleanup"
               /\ UNCHANGED <<page_url, flags, action_history>>
          ELSE IF TrackingRaises(consensus_action, is_security_test)
          THEN /\ rows' = rows \o <<Row(turn_idx, consensus_action, TRUE, <<"ok">>),
                                    Row(turn_idx, consensus_action, FALSE,
                                        <<"execution_error">>)>>
               /\ page_url' = newUrl
               /\ flags' = IF outcome = "ok"
                           THEN UpdateFlags(flags, consensus_action, current_url, newUrl)
                           ELSE flags
               /\ action_history' = Append(action_history,
                                           [type |-> consensus_action.type,
                                            target |-> consensus_action.target,
                                            payload |-> consensus_action.payload,
                                            success |-> outcome = "ok"])
               /\ success' = FALSE
               /\ exit_path' = "exec_error"
               /\ pc' = "cleanup"
          ELSE /\ rows' = Append(rows, Row(turn_idx, consensus_action, TRUE, <<"ok">>))
               /\ page_url' = newUrl
               /\ flags' = IF outcome = "ok"
                           THEN UpdateFlags(flags, consensus_action, current_url, newUrl)
                           ELSE flags
               /\ action_history' = Remember(action_history, consensus_action, outcome = "ok")
               /\ IF ReportEnds(consensus_action)
                  THEN exit_path' = "report" /\ pc' = "cleanup"
                  ELSE exit_path' = exit_path /\ pc' = "loop"
               /\ UNCHANGED success
    /\ UNCHANGED <<max_turns, is_security_test, cancel_requested, rvars,
                   turn_idx, status, current_url, decided,
                   consensus_action, cvars>>

\* variant: every session is reported completed
SessionStatusCompleted(ok) == "completed"

\* line 484
SessionStatus(ok) == IF ok THEN "completed" ELSE "failed"

\* lines 481-502
Cleanup ==
    /\ pc = "cleanup"
    /\ status' = SessionStatus(success)
    /\ pc' = "done"
    /\ UNCHANGED <<max_turns, is_security_test, cancel_requested, rvars,
                   turn_idx, success, page_url, current_url,
                   flags, action_history, decided, consensus_action, rows, executed,
                   exit_path, cvars>>

\* lines 494-502: the outcome fields of the returned dict (turns_executed is
\* the last value of turn_idx, line 88)
ReturnedResult ==
    [status |-> status, success |-> success, turns_executed |-> turn_idx]

\* ---------------------------------------------------------------- loop sessions
LoopActs ==
    { Action("click", "#x", Dict("")),
      Action("fill", "#y", Dict("a")),
      Action("fill", "#y", Dict("b")),
      Action("fill", "#y", NoPayload),
      Action("navigate", "/products", NoPayload) }

LoopPages == {"/"}

InitLoop == InitSession(MaxTurnsLoop, {FALSE}, LoopPages)

NextLoop ==
    \/ BeginTurn
    \/ BudgetExhausted
    \/ Decide(LoopActs)
    \/ Guardrails
    \/ LoopCheck
    \/ Validate
    \/ Execute(LoopPages)
    \/ Cleanup

SpecLoop == InitLoop /\ [][NextLoop]_vars

\* ---------------------------------------------------------------- shop sessions
ShopActs ==
    { Action("click", ".add-to-cart", Dict("")),
      Action("fill", "#minPrice", Dict("10")),
      Action("fill", "#maxPrice", Dict("200")),
      Action("fill", "#searchInput", Dict("<script>")),
      Action("click", ".search-button", Dict("")),
      Action("report", "task_complete", Dict("")) }

ShopPages == {"/search?q=a", "/cart"}

Init == InitSession(MaxTurnsGuard, {FALSE}, ShopPages)

Next ==
    \/ BeginTurn
    \/ BudgetExhausted
    \/ Decide(ShopActs)
    \/ Guardrails
    \/ LoopCheck
    \/ Validate
    \/ Execute(ShopPages)
    \/ Cleanup

Spec == Init /\ [][Next]_vars

\* ---------------------------------------------------------------- security sessions
\* a scenario whose name or description contains "security" (lines 83-85)
SecurityActs ==
    { Action("fill", "#minPrice", Dict("int:10")),
      Action("fill", "#minPrice", Dict("-5")),
      Action("fill", "#searchInput", Dict("<script>")),
      Action("click", ".add-to-cart", Dict("")) }

SecurityPages == {"/search?q=a", "/cart"}

InitSecurity == InitSession(MaxTurnsSecurity, {TRUE}, SecurityPages)

NextSecurity ==
    \/ BeginTurn
    \/ BudgetExhausted
    \/ Decide(SecurityActs)
    \/ Guardrails
    \/ LoopCheck
    \/ Validate
    \/ Execute(SecurityPages)
    \/ Cleanup

SpecSecurity == InitSecurity /\ [][NextSecurity]_vars

\* ---------------------------------------------------------------- fill sessions
\* sessions long enough for a fourth repetition: one field, two values, one click
FillActs ==
    { Action("fill", "#y", Dict("a")),
      Action("fill", "#y", Dict("b")),
      Action("click", "#x", Dict("")) }

InitFill == InitSession(MaxTurnsFill, {FALSE}, LoopPages)

NextFill ==
    \/ BeginTurn
    \/ BudgetExhausted
    \/ Decide(FillActs)
    \/ Guardrails
    \/ LoopCheck
    \/ Validate
    \/ Execute(LoopPages)
    \/ Cleanup

SpecFill == InitFill /\ [][NextFill]_vars

\* ---------------------------------------------------------------- long sessions
\* sessions of more turns than the history has room for: two actions that may
\* alternate
HistoryActs ==
    { Action("click", "#x", Dict("")),
      Action("navigate", "/products", NoPayload) }

InitHistory == InitSession(MaxTurnsHistory, {FALSE}, LoopPages)

NextHistory ==
    \/ BeginTurn
    \/ BudgetExhausted
    \/ Decide(HistoryActs)
    \/ Guardrails
    \/ LoopCheck
    \/ Validate
    \/ Execute(LoopPages)
    \/ Cleanup

SpecHistory == InitHistory /\ [][NextHistory]_vars

\* Every step of the session is a stretch of the runner's own code or an
\* awaited external call (screenshot, committee, browser); when each call
\* returns, the step that is enabled is taken.
SpecHistoryFair == SpecHistory /\ WF_vars(NextHistory)

\* ---------------------------------------------------------------- agent pool
\* src/multi_agent_router.py: AgentPool.run_turn under the failover and the
\* committee policy.  Actions here are of the schema of src/schemas.py.

\* schemas.py line 15: the Literal of Action.type
RouterTypes == {"tap", "type", "scroll", "navigate", "upload", "report"}

\* validators.py lines 22-24; every target of the model is a string
schema_check(a) == a.type \in RouterTypes

\* targets that contain one of "signup", "email", "account", "register"
HasSignupKeyword(g) == g \in {"#signup", "/signup"}

\* validators.py lines 32-43
goal_bias_check(a, signup) ==
    IF signup /\ a.type \in {"tap", "navigate", "type"}
    THEN HasSignupKeyword(a.target)
    ELSE TRUE

\* what agent.step may return: the last one is the fallback of agent.py
\* lines 36-41
RouterActs ==
    { Action("tap", "#signup", NoPayload),
      Action("tap", "#signup", Dict("x")),
      Action("navigate", "/home", NoPayload),
      Action("tap", "#login", NoPayload),
      Action("report", "agent/schema", Dict("")) }

\* agent.step returns an action or lets the RuntimeError of emit_action
\* through (llm.py lines 58-74, agent.py line 33)
RouterReplies == {Reply(a) : a \in RouterActs} \cup {Timeout}

\* self.model_names, in configured order
model_names == [i \in 1..NumModels |-> i]

\* sequences of n distinct model names
Samples(n) ==
    {q \in [1..n -> 1..NumModels] : \A i, j \in 1..n : i # j => q[i] # q[j]}

\* f"{a.type}:{a.target}" (line 225)
RouterKey(a) == <<a.type, a.target>>

ActionKeys(actions) == [j \in 1..Len(actions) |-> RouterKey(actions[j])]

\* Counter(action_keys)[k]
VoteCount(keys, k) == Cardinality({j \in 1..Len(keys) : keys[j] = k})

\* vote_counts.most_common(1)[0]: the first key, in order of first
\* appearance, with the highest count (line 227)
MostCommon(keys) ==
    LET j == CHOOSE j \in 1..Len(keys) :
                 /\ \A i \in 1..Len(keys) : VoteCount(keys, keys[i]) <= VoteCount(keys, keys[j])
                 /\ \A i \in 1..(j - 1) : VoteCount(keys, keys[i]) < VoteCount(keys, keys[j])
    IN  keys[j]

\* lines 230-232: the first action of actions_list with the winning key
FirstWithKey(actions, k) ==
    actions[CHOOSE j \in 1..Len(actions) :
                /\ RouterKey(actions[j]) = k
                /\ \A i \in 1..(j - 1) : RouterKey(actions[i]) # k]

\* lines 235-237: zip(per_agent_results, action_keys) pairs the results with
\* the keys position by position and stops at the shorter of the two
MarkWinners(results, keys, k) ==
    [p \in 1..Len(results) |->
        IF p <= Len(keys) /\ keys[p] = k
        THEN [results[p] EXCEPT !.selected = TRUE]
        ELSE results[p]]

\* line 51: the default of vote_threshold
vote_threshold == (Len(committee_models) \div 2) + 1

\* variant: when every agent failed, the first agent's action is returned
ExhaustedVerdictFirst(results) == results[1].action

\* line 179: per_agent_results[-1]["action"]
ExhaustedVerdict(results) == results[Len(results)].action

InitRouter ==
    /\ policy \in {"failover", "committee"}
    /\ rpc = "loop"
    /\ looking_to_signup \in BOOLEAN
    /\ committee_models \in
          IF policy = "committee"
          THEN UNION {Samples(n) : n \in 1..NumModels}
          ELSE {<<>>}
    /\ router_calls = <<>>
    /\ per_agent_results = <<>>
    /\ actions_list = <<>>
    /\ router_result = NoRouterResult
    /\ SessionIdle
    /\ cpc = "idle"
    /\ replies1 = <<>>
    /\ replies2 = <<>>
    /\ round1_proposals = <<>>
    /\ round2_proposals = <<>>
    /\ result = NoResult
    /\ calls = <<>>
    /\ discussion_context = <<>>

\* lines 151-175: one iteration of the for loop of _run_failover
FailoverCall ==
    /\ policy = "failover"
    /\ rpc = "loop"
    /\ Len(per_agent_results) < Len(model_names)
    /\ LET model_name == model_names[Len(per_agent_results) + 1]
       IN  /\ router_calls' = Append(router_calls, model_name)
           /\ \E r \in RouterReplies :
                 IF StepRaises(r)
                 THEN /\ rpc' = "raised"
                      /\ UNCHANGED <<per_agent_results, router_result>>
                 ELSE LET action == r.data
                          schema_valid == schema_check(action)
                          goal_valid == goal_bias_check(action, looking_to_signup)
                          passed == schema_valid /\ goal_valid
                          results == Append(per_agent_results,
                                            [model |-> model_name, action |-> action,
                                             schema_valid |-> schema_valid,
                                             goal_valid |-> goal_valid,
                                             selected |-> passed])
                      IN  /\ per_agent_results' = results
                          /\ IF passed
                             THEN /\ router_result' =
                                        [verdict |-> action,
                                         per_agent_results |-> results,
                                         routing_policy |-> "failover",
                                         consensus |-> TRUE]
                                  /\ rpc' = "returned"
                             ELSE UNCHANGED <<rpc, router_result>>
    /\ UNCHANGED <<policy, looking_to_signup, committee_models, actions_list, cvars, svars>>

\* lines 177-184: the for loop ended without a return
FailoverExhausted ==
    /\ policy = "failover"
    /\ rpc = "loop"
    /\ Len(per_agent_results) = Len(model_names)
    /\ router_result' = [verdict |-> ExhaustedVerdict(per_agent_results),
                         per_agent_results |-> per_agent_results,
                         routing_policy |-> "failover",
                         consensus |-> FALSE]
    /\ rpc' = "returned"
    /\ UNCHANGED <<policy, looking_to_signup, committee_models, router_calls, per_agent_results,
                   actions_list, cvars, svars>>

\* lines 198-215: one iteration of the for loop of _run_committee
CommitteeCall ==
    /\ policy = "committee"
    /\ rpc = "loop"
    /\ Len(per_agent_results) < Len(committee_models)
    /\ LET model_name == committee_models[Len(per_agent_results) + 1]
       IN  /\ router_calls' = Append(router_calls, model_name)
           /\ \E r \in RouterReplies :
                 IF StepRaises(r)
                 THEN /\ rpc' = "raised"
                      /\ UNCHANGED <<per_agent_results, actions_list>>
                 ELSE LET action == r.data
                          schema_valid == schema_check(action)
                          goal_valid == goal_bias_check(action, looking_to_signup)
                      IN  /\ per_agent_results' =
                                Append(per_agent_results,
                                       [model |-> model_name, action |-> action,
                                        schema_valid |-> schema_valid,
                                        goal_valid |-> goal_valid,
                                        selected |-> FALSE])
                          /\ actions_list' = IF schema_valid /\ goal_valid
                                             THEN Append(actions_list, action)
                                             ELSE actions_list
                          /\ UNCHANGED rpc
    /\ UNCHANGED <<policy, looking_to_signup, committee_models, router_result, cvars, svars>>

\* lines 217-258: the vote
CommitteeVote ==
    /\ policy = "committee"
    /\ rpc = "loop"
    /\ Len(per_agent_results) = Len(committee_models)
    /\ IF actions_list = <<>>
       THEN LET results == [per_agent_results EXCEPT ![1].selected = TRUE]
            IN  /\ per_agent_results' = results
                /\ router_result' = [verdict |-> per_agent_results[1].action,
                                     per_agent_results |-> results,
                                     routing_policy |-> "committee",
                                     consensus |-> FALSE]
       ELSE LET action_keys == ActionKeys(actions_list)
                winning_key == MostCommon(action_keys)
                results == MarkWinners(per_agent_results, action_keys, winning_key)
            IN  /\ per_agent_results' = results
                /\ router_result' =
                      [verdict |-> FirstWithKey(actions_list, winning_key),
                       per_agent_results |-> results,
                       routing_policy |-> "committee",
                       consensus |-> VoteCount(action_keys, winning_key) >= vote_threshold]
    /\ rpc' = "returned"
    /\ UNCHANGED <<policy, looking_to_signup, committee_models, router_calls, actions_list,
                   cvars, svars>>

NextRouter ==
    \/ FailoverCall
    \/ FailoverExhausted
    \/ CommitteeCall
    \/ CommitteeVote

SpecRouter == InitRouter /\ [][NextRouter]_vars

\* ---------------------------------------------------------------- session properties
\* a terminal condition other than the turn budget has fired: a failure was
\* flagged (loop, validation, execution or decide error) or a report was executed
Fired ==
    \/ ~success
    \/ \E j \in 1..Len(rows) : rows[j].action_type = "report" /\ rows[j].success

\* C1: from the moment a terminal condition has fired, the run only cleans up:
\* no later turn begins and nothing more is decided, recorded or executed; and
\* the loop is left through the exhausted turn budget only when no terminal
\* condition has fired.
C1_NoTurnAfterTerminal ==
    [][ /\ Fired => /\ pc' \in {"cleanup", "done"}
                    /\ turn_idx' = turn_idx
                    /\ decided' = decided
                    /\ rows' = rows
                    /\ executed' = executed
        /\ exit_path' = "budget" => (~Fired' /\ turn_idx' = max_turns) ]_vars

\* C1 witness: a session that ended on a terminal condition with turns to spare
C1_EndedEarly == pc = "done" /\ Fired /\ turn_idx < max_turns /\ Len(rows) >= 2

\* the consensus of this turn is an add action on the search view after the
\* search add was done, and the guardrail stage has just been left
C6_Case ==
    /\ pc = "loopcheck"
    /\ flags.search_add_done
    /\ HasSearch(current_url)
    /\ HasAddToCart(decided.target)

\* C6 as stated: in that case the guardrail stage always outputs navigate /products.
C6_AlwaysNavigate ==
    C6_Case => (consensus_action.type = "navigate" /\ consensus_action.target = "/products")

\* C6: in that case the guardrail stage never outputs the add action; it outputs
\* navigate /products, unless filtered_add_done holds and the cart was not yet
\* visited, where rule 4 turns the navigation into click .go-to-cart.
C6_NeverTheAddAction ==
    C6_Case =>
        /\ ~HasAddToCart(consensus_action.target)
        /\ IF flags.filtered_add_done /\ ~flags.cart_visited
           THEN consensus_action = Action("click", ".go-to-cart", Dict(""))
           ELSE consensus_action = Action("navigate", "/products", NoPayload)

\* C6 witness: rule 1 rewrote an add consensus into the navigation
C6_Rewritten == C6_Case /\ consensus_action = Action("navigate", "/products", NoPayload)

LastEntry == action_history[Len(action_history)]

\* the two most recent history entries are clicks on the candidate's target
ThirdClick ==
    /\ consensus_action.type = "click"
    /\ Len(action_history) >= 2
    /\ \A j \in {Len(action_history) - 1, Len(action_history)} :
          /\ action_history[j].type = "click"
          /\ action_history[j].target = consensus_action.target

LoopAbort ==
    /\ pc' = "cleanup"
    /\ exit_path' = "loop"
    /\ success' = FALSE
    /\ executed' = executed

LoopPass ==
    /\ pc' = "validate"
    /\ rows' = rows
    /\ success' = success

\* C7 as stated: a third consecutive identical click always aborts the session.
C7_ThirdClickAborts ==
    [][(pc = "loopcheck" /\ ThirdClick) => LoopAbort]_vars

\* C7: a third consecutive identical click aborts the session with loop detected
\* and is not executed, provided the most recent of the two clicks succeeded.
C7_ThirdClickAfterSuccessAborts ==
    [][(pc = "loopcheck" /\ ThirdClick /\ LastEntry.success) => LoopAbort]_vars

\* C7 witness: the loop check has aborted on a third identical click
C7_Aborted ==
    /\ pc = "cleanup"
    /\ exit_path = "loop"
    /\ ThirdClick
    /\ LastEntry.success

\* the candidate has the type and target of the most recent history entry
RepeatsLast ==
    /\ action_history # <<>>
    /\ IsSameAction(consensus_action, LastEntry)

\* C8: a candidate that repeats a most recent entry marked failed passes the loop
\* check, for any action type and any number of earlier retries.
C8_RetryAfterFailurePasses ==
    [][(pc = "loopcheck" /\ RepeatsLast /\ ~LastEntry.success) => LoopPass]_vars

\* C8 witness: a navigation that already failed three times in a row is let
\* through once more
C8_FourthRetry ==
    /\ pc = "validate"
    /\ consensus_action.type = "navigate"
    /\ Len(action_history) >= 3
    /\ \A j \in (Len(action_history) - 2)..Len(action_history) :
          /\ IsSameAction(consensus_action, action_history[j])
          /\ ~action_history[j].success

\* C9: a click that repeats the preceding successful click, the action before
\* that one being a different action (or none), passes the loop check.
C9_SingleRepeatPasses ==
    [][(/\ pc = "loopcheck"
        /\ consensus_action.type = "click"
        /\ RepeatsLast
        /\ LastEntry.success
        /\ Len(action_history) >= 2 =>
              ~IsSameAction(consensus_action, action_history[Len(action_history) - 1]))
       => LoopPass]_vars

RowsOfTurn == {j \in 1..Len(rows) : rows[j].turn = turn_idx}

\* C11: a candidate that is neither a fill nor a click and repeats the type and
\* target of the preceding successful action is aborted by the loop check: it is
\* not validated or executed, exactly one row for the turn is appended, with
\* success false and the loop_detected reason, and the session then ends failed
\* without another turn or another look at the candidate.
C11_RepeatedOtherActionAborts ==
    /\ [][(/\ pc = "loopcheck"
           /\ consensus_action.type \notin {"fill", "click"}
           /\ RepeatsLast
           /\ LastEntry.success)
          => /\ LoopAbort
             /\ rows' = Append(rows, Row(turn_idx, consensus_action, FALSE,
                                         <<"loop_detected">>))
             /\ Cardinality(RowsOfTurn') = 1]_vars
    /\ [][exit_path = "loop"
          => /\ pc' \in {"cleanup", "done"}
             /\ turn_idx' = turn_idx
             /\ rows' = rows
             /\ executed' = executed
             /\ (pc' = "done" => status' = "failed")]_vars

\* C11 witness: a session that ended failed on a navigation repeating the
\* successful navigation before it
C11_NavigateAborted ==
    /\ pc = "done"
    /\ exit_path = "loop"
    /\ status = "failed"
    /\ consensus_action.type = "navigate"
    /\ RepeatsLast
    /\ LastEntry.success
    /\ rows[Len(rows)] = Row(turn_idx, consensus_action, FALSE, <<"loop_detected">>)

\* the executed action is one that may set flag k (lines 404-414)
FlagSource(k, a) ==
    CASE k = "search_add_done" ->
            a.type = "click" /\ HasAddToCart(a.target) /\ HasSearch(current_url)
      [] k = "filtered_add_done" ->
            a.type = "click" /\ HasAddToCart(a.target) /\ flags.min_filled /\ flags.max_filled
      [] k = "min_filled" -> a.type = "fill" /\ a.target = "#minPrice"
      [] k = "max_filled" -> a.type = "fill" /\ a.target = "#maxPrice"
      [] OTHER -> TRUE

\* this step executes the guardrail output and judges it successful
ExecutedAndJudgedSuccessful ==
    /\ pc = "execute"
    /\ executed' = Append(executed, <<turn_idx, consensus_action>>)
    /\ action_history' # <<>>
    /\ action_history'[Len(action_history')].success

\* C12: a guardrail flag goes from false to true only in a step that executes the
\* guardrail output of the turn and judges it successful, and only when that
\* executed action is the one the flag stands for; no other step (a failed
\* execution, a loop abort, a validation failure, the start of a turn) sets a flag.
C12_FlagsOnlyFromSuccessfulAction ==
    [][\A k \in DOMAIN flags :
          (~flags[k] /\ flags'[k]) =>
              (ExecutedAndJudgedSuccessful /\ FlagSource(k, consensus_action))]_vars

\* the guardrail stage of the current turn has been left
PastGuardrails == pc \in {"loopcheck", "validate", "execute"}

\* C13: in a turn where filtered_add_done is true and cart_visited is false, the
\* action that leaves the guardrail stage is a click whose target contains
\* go-to-cart or /cart, whatever the consensus was; so no report is executed, and
\* no session ends on a report, in such a turn.
C13_GoToCartForced ==
    /\ [](PastGuardrails /\ flags.filtered_add_done /\ ~flags.cart_visited
             => /\ consensus_action.type = "click"
                /\ HasGoToCart(consensus_action.target) \/ HasCart(consensus_action.target))
    /\ [][exit_path # "report" /\ exit_path' = "report"
             => ~(flags.filtered_add_done /\ ~flags.cart_visited)]_vars

\* C13 witness: a report consensus was rewritten into the click on go-to-cart
C13_ReportRewritten ==
    /\ pc = "loopcheck"
    /\ flags.filtered_add_done
    /\ ~flags.cart_visited
    /\ decided.type = "report"
    /\ consensus_action = Action("click", ".go-to-cart", Dict(""))

\* the consensus of this turn is an add click outside the search view, after the
\* search add was done and before both price filters are filled, and the
\* guardrail stage has just been left
C14_Case ==
    /\ pc = "loopcheck"
    /\ flags.search_add_done
    /\ ~(flags.min_filled /\ flags.max_filled)
    /\ ~HasSearch(current_url)
    /\ decided.type = "click"
    /\ HasAddToCart(decided.target)

\* C14: in that case the add click never leaves the guardrail stage as it is: the
\* stage outputs fill #minPrice whenever min_filled is false, whatever max_filled
\* is, and fill #maxPrice only when min_filled is true.
C14_FiltersBeforeAdd ==
    C14_Case =>
        /\ consensus_action # decided
        /\ consensus_action.type = "fill"
        /\ ~flags.min_filled => consensus_action.target = "#minPrice"
        /\ flags.min_filled => consensus_action.target = "#maxPrice"

\* C14 witness: with the minimum price filled, an add click was turned into the
\* fill of the maximum price
C14_MaxPriceAsked ==
    /\ C14_Case
    /\ flags.min_filled
    /\ consensus_action = Action("fill", "#maxPrice", Dict("200"))

\* both price filters are filled, the filtered add is still to be done, the
\* consensus of this turn goes back to searching (a fill of the search input or
\* a click on the search button), and the guardrail stage has just been left
C15_Case ==
    /\ pc = "loopcheck"
    /\ flags.min_filled
    /\ flags.max_filled
    /\ ~flags.filtered_add_done
    /\ \/ decided.type = "fill" /\ StartsWithSearchInput(decided.target)
       \/ decided.type = "click" /\ HasSearchButton(decided.target)

\* C15: in that case the action that reaches the loop check is click .add-to-cart:
\* rule 2 makes the replacement and rules 3 and 4 leave it alone.
C15_SearchTurnedIntoAdd ==
    C15_Case =>
        /\ consensus_action.type = "click"
        /\ consensus_action.target = ".add-to-cart"
        /\ consensus_action =
              GuardFilteredAdd(GuardSearchAdd(decided, flags, current_url), flags)

\* C15 witness: a fill of the search input was replaced by the add click
C15_SearchInputReplaced ==
    /\ C15_Case
    /\ decided.type = "fill"
    /\ consensus_action = Action("click", ".add-to-cart", Dict(""))

\* the guardrail output for the consensus of the current turn
GuardrailOutput == ApplyGuardrails(decided, flags, current_url)

\* C16: the executor is called only with the guardrail output of the turn's
\* consensus, and only when that output has passed the loop check and the
\* validator of the same turn; a row written by the loop check or by the
\* validator is about the guardrail output and is written only when that output
\* loops, respectively only when it passed the loop check and fails validation.
C16_ExecutesCheckedGuardrailOutput ==
    /\ [][executed' # executed
             => /\ pc = "execute"
                /\ executed' = Append(executed, <<turn_idx, GuardrailOutput>>)
                /\ ~LoopDetected(action_history, GuardrailOutput)
                /\ Passed(GuardrailOutput, is_security_test)]_vars
    /\ [][rows' # rows /\ pc = "loopcheck"
             => /\ LoopDetected(action_history, GuardrailOutput)
                /\ rows' = Append(rows, Row(turn_idx, GuardrailOutput, FALSE,
                                            <<"loop_detected">>))]_vars
    /\ [][rows' # rows /\ pc = "validate"
             => /\ ~LoopDetected(action_history, GuardrailOutput)
                /\ ~Passed(GuardrailOutput, is_security_test)
                /\ rows' = Append(rows, Row(turn_idx, GuardrailOutput, FALSE,
                                    Reasons(GuardrailOutput, is_security_test)))]_vars
    /\ [](PastGuardrails => consensus_action = GuardrailOutput)

\* C16 witness: a consensus the validator would reject was rewritten by the
\* guardrails, and the rewritten action was the one executed
C16_RewrittenActionExecuted ==
    /\ pc = "loop"
    /\ executed # <<>>
    /\ executed[Len(executed)] = <<turn_idx, Action("click", ".add-to-cart", Dict(""))>>
    /\ ~Passed(decided, is_security_test)

\* the action at the executor is a report
ReportAtExecute == pc = "execute" /\ consensus_action.type = "report"

\* the most recent row of the turn log records a successful report
ReportRecorded ==
    /\ rows # <<>>
    /\ rows[Len(rows)].action_type = "report"
    /\ rows[Len(rows)].success

\* the report has been recorded and the session only cleans up, ending completed
ReportCompletes ==
    /\ [][ReportRecorded
             => /\ pc' \in {"cleanup", "done"}
                /\ turn_idx' = turn_idx
                /\ rows' = rows
                /\ executed' = executed
                /\ (pc' = "done" => status' = "completed")]_vars

\* C17 as stated: a report that reaches the Execute step is always executed and
\* recorded with success true, and the session then ends completed.
C17_ReportAlwaysCompletes ==
    /\ [][ReportAtExecute
             => /\ executed' = Append(executed, <<turn_idx, consensus_action>>)
                /\ rows' = Append(rows, Row(turn_idx, consensus_action, TRUE, <<"ok">>))
                /\ pc' = "cleanup"]_vars
    /\ ReportCompletes

\* C17: a report that reaches the Execute step is handed to the executor; unless
\* the step raises an exception, it is recorded as a row of the turn with success
\* true, the loop is left, and the session ends completed without another turn.
C17_ReportCompletesUnlessRaised ==
    /\ [][ReportAtExecute
             => /\ executed' = Append(executed, <<turn_idx, consensus_action>>)
                /\ exit_path' # "exec_error"
                     => /\ rows' = Append(rows, Row(turn_idx, consensus_action, TRUE,
                                                    <<"ok">>))
                        /\ pc' = "cleanup"
                        /\ success']_vars
    /\ ReportCompletes

\* C17 witness: a session ended completed on an executed report, turns to spare
C17_EndedOnReport ==
    /\ pc = "done"
    /\ status = "completed"
    /\ ReportRecorded
    /\ rows[Len(rows)].turn = turn_idx
    /\ executed[Len(executed)][1] = turn_idx
    /\ executed[Len(executed)][2].type = "report"
    /\ turn_idx < max_turns

\* C18: a session that left the loop because the turn budget ran out, with no
\* report and no failure, is not returned as a completed, successful session.
C18_BudgetEndIsNeutral ==
    (pc = "done" /\ exit_path = "budget")
        => (ReturnedResult.status # "completed" /\ ~ReturnedResult.success)

\* C19: when the validator rejects the action of turn k, the turn log then holds
\* exactly k rows: rows 1..k-1 are the earlier turns, all with success true, and
\* row k is turn k with success false and a non-empty list of validator reasons;
\* the action of turn k is not executed, and the session then ends failed
\* without another turn.
C19_ValidationFailureRecorded ==
    /\ [][pc = "validate" /\ pc' = "cleanup"
             => /\ Len(rows') = turn_idx
                /\ \A j \in 1..(turn_idx - 1) : rows'[j].turn = j /\ rows'[j].success
                /\ rows'[turn_idx].turn = turn_idx
                /\ ~rows'[turn_idx].success
                /\ rows'[turn_idx].validators # <<>>
                /\ rows'[turn_idx].validators = Reasons(consensus_action, is_security_test)
                /\ executed' = executed
                /\ \A j \in 1..Len(executed) : executed[j][1] # turn_idx
                /\ ~success']_vars
    /\ [][exit_path = "validation"
             => /\ pc' \in {"cleanup", "done"}
                /\ turn_idx' = turn_idx
                /\ rows' = rows
                /\ executed' = executed
                /\ (pc' = "done" => status' = "failed")]_vars

\* C19 witness: a session ended failed on a validation failure in its third turn
C19_FailedInTurnThree ==
    /\ pc = "done"
    /\ exit_path = "validation"
    /\ status = "failed"
    /\ turn_idx = 3
    /\ Len(rows) = 3
    /\ rows[1].success /\ rows[2].success /\ ~rows[3].success
    /\ rows[3].validators = <<"safety">>
    /\ Len(executed) = 2

\* the Execute step of the current turn raised: the loop is left from the
\* executor's position with the failure flagged
ExecuteRaised == pc = "execute" /\ pc' = "cleanup" /\ ~success'

\* C20: when the Execute step raises in turn t, the last row of the turn log is
\* then a row for turn t with success false carrying the execution error, the
\* rows before it are untouched, and the session ends failed without another
\* turn.
C20_ExecutionErrorRecorded ==
    /\ [][ExecuteRaised
             => /\ Len(rows') > Len(rows)
                /\ SubSeq(rows', 1, Len(rows)) = rows
                /\ rows'[Len(rows')].turn = turn_idx
                /\ rows'[Len(rows')].action_type = consensus_action.type
                /\ ~rows'[Len(rows')].success
                /\ rows'[Len(rows')].validators = <<"execution_error">>
                /\ exit_path' = "exec_error"]_vars
    /\ [][exit_path = "exec_error"
             => /\ pc' \in {"cleanup", "done"}
                /\ turn_idx' = turn_idx
                /\ rows' = rows
                /\ executed' = executed
                /\ (pc' = "done" => status' = "failed")]_vars

\* C20 witness: a session ended failed on an exception in the Execute step of
\* its second turn, with turns to spare
C20_RaisedInTurnTwo ==
    /\ pc = "done"
    /\ exit_path = "exec_error"
    /\ status = "failed"
    /\ turn_idx = 2
    /\ turn_idx < max_turns
    /\ Len(rows) = 2
    /\ rows[1].success
    /\ rows[2] = Row(2, consensus_action, FALSE, <<"execution_error">>)
    /\ executed[Len(executed)] = <<2, consensus_action>>

\* C21: the turn log holds at most one row per turn and its turn numbers are
\* strictly increasing, whichever way the session ends.
C21_OneRowPerTurn ==
    \A i, j \in 1..Len(rows) : i < j => rows[i].turn < rows[j].turn

\* the committee's decide raised in the current turn
DecideRaised == pc = "decide" /\ pc' = "cleanup"

\* C22: when decide raises in turn t, nothing is appended to the turn log (so a
\* failure in turn 1 leaves it empty), the executor is not called in turn t,
\* decide is not called again, and the session ends failed.
C22_DecideErrorEndsSession ==
    /\ [][DecideRaised
             => /\ rows' = rows
                /\ \A j \in 1..Len(rows) : rows[j].turn < turn_idx
                /\ executed' = executed
                /\ \A j \in 1..Len(executed) : executed[j][1] < turn_idx
                /\ ~success'
                /\ exit_path' = "decide_error"]_vars
    /\ [][exit_path = "decide_error"
             => /\ pc' \in {"cleanup", "done"}
                /\ turn_idx' = turn_idx
                /\ decided' = decided
                /\ rows' = rows
                /\ executed' = executed
                /\ (pc' = "done" => status' = "failed")]_vars
    /\ [](exit_path = "decide_error" /\ turn_idx = 1 => rows = <<>> /\ executed = <<>>)

\* C22 witness: a session ended failed because decide raised in its second
\* turn; the log holds the row of the first turn only
C22_DecideRaisedInTurnTwo ==
    /\ pc = "done"
    /\ exit_path = "decide_error"
    /\ status = "failed"
    /\ turn_idx = 2
    /\ Len(rows) = 1
    /\ rows[1].turn = 1
    /\ Len(executed) = 1

\* position of the earliest Round-2 proposal whose group has the highest score:
\* the first member of the winning group
WinnerPosition ==
    CHOOSE j \in 1..Len(round2_proposals) :
        /\ \A m \in 1..Len(round2_proposals) :
              GroupScore(Key(round2_proposals[m])) <= GroupScore(Key(round2_proposals[j]))
        /\ \A m \in 1..(j - 1) :
              GroupScore(Key(round2_proposals[m])) < GroupScore(Key(round2_proposals[j]))

\* C23: the consensus action decide() returns is the action (type, target and
\* payload) of the earliest Round-2 proposal of the winning group, whatever the
\* payloads of the other members of the group are.
C23_FirstOfWinningGroup ==
    cpc = "returned" =>
        result.consensus_action = round2_proposals[WinnerPosition].action

\* C23 witness: decide() returned the payload of the first member of the winning
\* group although a later member of the group carries another payload
C23_OtherPayloadIgnored ==
    /\ cpc = "returned"
    /\ \E j \in (WinnerPosition + 1)..Len(round2_proposals) :
          /\ Key(round2_proposals[j]) = Key(round2_proposals[WinnerPosition])
          /\ round2_proposals[j].action.payload
                # round2_proposals[WinnerPosition].action.payload
    /\ result.consensus_action.payload = round2_proposals[WinnerPosition].action.payload

\* number of Round-2 proposals carrying key k
GroupSize(k) ==
    Cardinality({j \in 1..Len(round2_proposals) : Key(round2_proposals[j]) = k})

\* all Round-2 proposals carry the same confidence
EqualConfidence ==
    \A i, j \in 1..Len(round2_proposals) :
        round2_proposals[i].confidence = round2_proposals[j].confidence

OnePerAgent(proposals) ==
    /\ Len(proposals) <= NumAgents
    /\ \A j \in 1..Len(proposals) : proposals[j].agent_id \in Agents
    /\ \A i, j \in 1..Len(proposals) :
          proposals[i].agent_id = proposals[j].agent_id => i = j

\* C26: each round returns at most one proposal per agent id and no more
\* proposals than configured agents; every confidence lies in [0, 1], being 0.8
\* in Round 1 and 0.9 or 0.85 in Round 2; and the proposal list decide() returns
\* is the Round-1 list followed by the Round-2 list.
C26_ProposalLists ==
    /\ OnePerAgent(round1_proposals)
    /\ OnePerAgent(round2_proposals)
    /\ \A j \in 1..Len(round1_proposals) : round1_proposals[j].confidence = 80
    /\ \A j \in 1..Len(round2_proposals) : round2_proposals[j].confidence \in {90, 85}
    /\ \A j \in 1..Len(round1_proposals) :
          0 <= round1_proposals[j].confidence /\ round1_proposals[j].confidence <= 100
    /\ \A j \in 1..Len(round2_proposals) :
          0 <= round2_proposals[j].confidence /\ round2_proposals[j].confidence <= 100
    /\ cpc = "returned" =>
          /\ Len(result.all_proposals) = Len(round1_proposals) + Len(round2_proposals)
          /\ SubSeq(result.all_proposals, 1, Len(round1_proposals)) = round1_proposals
          /\ SubSeq(result.all_proposals, Len(round1_proposals) + 1,
                    Len(result.all_proposals)) = round2_proposals

\* C26 witness: decide() returned two Round-1 proposals followed by three
\* Round-2 proposals, with both Round-2 confidences present
C26_TwoThenThree ==
    /\ cpc = "returned"
    /\ Len(round1_proposals) = 2
    /\ Len(round2_proposals) = 3
    /\ Len(result.all_proposals) = 5
    /\ \E i, j \in 1..3 :
          round2_proposals[i].confidence = 90 /\ round2_proposals[j].confidence = 85

\* the proposals of a round are those of exactly the agents whose call did not
\* raise, in agent order, each carrying what that agent's call returned
RoundKeepsOthers(replies, proposals) ==
    /\ DOMAIN replies = Agents
    /\ \A i \in Agents :
          StepRaises(replies[i]) <=>
              \A j \in 1..Len(proposals) : proposals[j].agent_id # i
    /\ \A j \in 1..Len(proposals) :
          proposals[j].action = StepAction(replies[proposals[j].agent_id])
    /\ \A i, j \in 1..Len(proposals) :
          i < j => proposals[i].agent_id < proposals[j].agent_id

\* C27: an agent whose call raises in Round 1 or Round 2 is left out of that
\* round only: the round completes with the proposals of all the other agents,
\* and every agent, whatever happened to it in Round 1, is asked again in
\* Round 2.
C27_PartialParticipation ==
    /\ cpc \in {"round2", "round3", "returned", "raised"}
          => RoundKeepsOthers(replies1, round1_proposals)
    /\ cpc \in {"round3", "returned", "raised"}
          => RoundKeepsOthers(replies2, round2_proposals)

\* C27 witness: agent 1 raised in Round 1, which completed with the two other
\* agents; agent 1 proposed in Round 2, where agent 2 raised
C27_FailedThenProposed ==
    /\ cpc = "returned"
    /\ StepRaises(replies1[1])
    /\ Len(round1_proposals) = 2
    /\ ~StepRaises(replies2[1])
    /\ StepRaises(replies2[2])
    /\ Len(round2_proposals) = 2
    /\ round2_proposals[1].agent_id = 1

\* C28: when Round 2 yields no proposal, decide() raises and returns nothing;
\* whenever decide() returns, its consensus action is the action of one of the
\* Round-2 proposals, never an empty or default one.
C28_EmptyRound2Raises ==
    /\ (CommitteeDone /\ round2_proposals = <<>>)
          => (cpc = "raised" /\ result = NoResult)
    /\ cpc = "returned"
          => \E j \in 1..Len(round2_proposals) :
                result.consensus_action = round2_proposals[j].action

\* C28 witness: decide() raised after a Round 1 with proposals and a Round 2
\* in which every agent failed
C28_RaisedAfterRound1 ==
    /\ cpc = "raised"
    /\ round1_proposals # <<>>
    /\ round2_proposals = <<>>
    /\ \A i \in Agents : StepRaises(replies2[i])

\* the agents whose Round-1 call returned an action
SucceededInRound1 == {i \in 1..Len(replies1) : ~StepRaises(replies1[i])}

\* C29: no agent is called for Round 2 before every agent's Round-1 call has
\* returned or failed; the vote starts only after every Round-2 call has
\* resolved; and the discussion context of Round 2 lists, in agent order, the
\* Round-1 proposal of exactly the agents that succeeded in Round 1.
C29_RoundsInOrder ==
    /\ [](\A a, b \in 1..Len(calls) : (calls[a][1] = 1 /\ calls[b][1] = 2) => a < b)
    /\ [](\A b \in 1..Len(calls) : calls[b][1] = 2 =>
             /\ \A i \in Agents : \E a \in 1..(b - 1) : calls[a] = <<1, i>>
             /\ Len(replies1) = NumAgents)
    /\ [](cpc \in {"round3", "returned", "raised"} =>
             /\ Len(replies2) = NumAgents
             /\ \A i \in Agents : \E b \in 1..Len(calls) : calls[b] = <<2, i>>)
    /\ [](calls # <<>> /\ calls[Len(calls)][1] = 2 =>
             /\ Len(replies1) = NumAgents
             /\ Len(discussion_context) = Cardinality(SucceededInRound1)
             /\ {discussion_context[j][1] : j \in 1..Len(discussion_context)}
                   = SucceededInRound1
             /\ \A j \in 1..Len(discussion_context) :
                   LET i == discussion_context[j][1]
                   IN  discussion_context[j] =
                          <<i, StepAction(replies1[i]).type, StepAction(replies1[i]).target>>
             /\ \A i, j \in 1..Len(discussion_context) :
                   i < j => discussion_context[i][1] < discussion_context[j][1])

\* C29 witness: the first Round-2 call has just been made; the last agent of
\* Round 1 had failed and the context lists the two agents that succeeded
C29_Round2Started ==
    /\ cpc = "round2"
    /\ calls # <<>>
    /\ calls[Len(calls)] = <<2, 1>>
    /\ StepRaises(replies1[NumAgents])
    /\ Len(discussion_context) = NumAgents - 1

\* C30: a round completes even if a source never answers: once Round 1 has
\* started it is eventually left, once Round 2 has started the vote is
\* eventually reached, and decide() eventually returns or raises.
C30_RoundsComplete ==
    /\ (cpc = "round1") ~> (cpc # "round1")
    /\ (cpc = "round2") ~> (cpc = "round3")
    /\ <>CommitteeDone

\* ---------------------------------------------------------------- cancellation
\* C31: a cancellation raised during a session is honored at the next round
\* boundary: once the request is pending, no agent is called for a round that
\* had not begun when it was raised.
C31_NoRoundAfterCancel ==
    [][(cancel_requested /\ Invoked(2) = 0) => Invoked(2)' = 0]_vars

\* ---------------------------------------------------------------- guardrail pipeline
\* C32: once search_add_done is true, no action whose target contains
\* add-to-cart reaches the Execute step in a turn whose current URL contains
\* /search, whichever rule produced the action.
C32_NoAddOnSearchAfterFlag ==
    (pc = "execute" /\ flags.search_add_done /\ HasSearch(current_url))
        => ~HasAddToCart(consensus_action.target)

\* ---------------------------------------------------------------- repeated fills
\* the history entry e is a successful fill of the candidate's field with the
\* candidate's value
SameFill(e, c) ==
    /\ e.type = "fill"
    /\ c.type = "fill"
    /\ e.target = c.target
    /\ PayloadValue(e.payload) = PayloadValue(c.payload)
    /\ e.success

\* the three most recent history entries are successful fills identical to the
\* candidate
FourthFill ==
    /\ Len(action_history) >= 3
    /\ \A j \in (Len(action_history) - 2)..Len(action_history) :
          SameFill(action_history[j], consensus_action)

\* the candidate repeats a successful identical fill and the history holds no
\* action on another type or target
SecondFillAlone ==
    /\ action_history # <<>>
    /\ SameFill(LastEntry, consensus_action)
    /\ \A j \in 1..Len(action_history) : IsSameAction(consensus_action, action_history[j])

\* C33: of successful fills with one target and one value at most three are
\* executed in a row: the history never shows four, a fourth consecutive
\* identical candidate aborts with loop detected, and so does the second when
\* the history holds no other action.
C33_AtMostThreeIdenticalFills ==
    /\ [](\A j \in 1..(Len(action_history) - 3) :
             ~(\A k \in j..(j + 3) :
                  /\ action_history[k].success
                  /\ SameFill(action_history[k], action_history[j])))
    /\ [][(pc = "loopcheck" /\ FourthFill) => LoopAbort]_vars
    /\ [][(pc = "loopcheck" /\ SecondFillAlone) => LoopAbort]_vars

\* C33 witness: three identical fills were executed after a click and the
\* fourth was aborted
C33_FourthAborted ==
    /\ pc = "cleanup"
    /\ exit_path = "loop"
    /\ FourthFill
    /\ Len(action_history) = 4
    /\ action_history[1].type = "click"

\* ---------------------------------------------------------------- alternation
\* C34: the loop detector aborts only a candidate whose type and target equal
\* those of the most recent history entry; any other candidate passes the loop
\* check, so a session that ended on loop detected did not end on an
\* alternation.
C34_AbortsOnlyRepeatOfLast ==
    /\ [][(pc = "loopcheck" /\ ~RepeatsLast) => LoopPass]_vars
    /\ [](exit_path = "loop" => RepeatsLast)

\* C34 witness: click and navigate were executed in alternation for the whole
\* session, each successfully, and the session ended on the turn budget
C34_AlternationRanOut ==
    /\ exit_path = "budget"
    /\ Len(action_history) >= 4
    /\ \A j \in 1..Len(action_history) :
          /\ action_history[j].success
          /\ action_history[j].type = (IF j % 2 = 1 THEN "click" ELSE "navigate")

\* ---------------------------------------------------------------- flag invariants
FlagNames == DOMAIN NoFlags

\* the flag part of the condition of rule 3 (line 219) and of rule 4 (line 226)
Rule3Applicable == flags.search_add_done /\ ~(flags.min_filled /\ flags.max_filled)
Rule4Applicable == flags.filtered_add_done /\ ~flags.cart_visited

\* C35: filtered_add_done implies min_filled and max_filled in every state, no
\* flag that is true ever becomes false again, and rule 3 and rule 4 are never
\* applicable together.
C35_FlagInvariants ==
    /\ [](flags.filtered_add_done => (flags.min_filled /\ flags.max_filled))
    /\ [][\A k \in FlagNames : flags[k] => flags'[k]]_vars
    /\ [](~(Rule3Applicable /\ Rule4Applicable))

\* C35 witness: a turn begins after the filtered add, with the cart not yet
\* visited
C35_AfterFilteredAdd ==
    /\ pc = "guardrails"
    /\ flags.filtered_add_done
    /\ flags.search_add_done
    /\ ~flags.cart_visited

\* ---------------------------------------------------------------- bounded history
\* the history entry e records the action a
Records(e, a) ==
    /\ e.type = a.type
    /\ e.target = a.target
    /\ e.payload = (IF Truthy(a.payload) THEN a.payload ELSE EmptyDict)

\* the history is the tail of the executed actions, in execution order
HistoryIsTailOfExecuted ==
    /\ Len(action_history) <= Len(executed)
    /\ \A j \in 1..Len(action_history) :
          Records(action_history[j],
                  executed[Len(executed) - Len(action_history) + j][2])

\* C36: at every loop check the history holds at most 5 entries, which are the
\* most recently executed actions in execution order; an executed action is
\* appended with a success flag and the oldest entry leaves first; the loop
\* check and the validator append nothing.
C36_HistoryBounded ==
    /\ [](pc = "loopcheck" =>
             /\ Len(action_history) <= 5
             /\ Len(action_history) = (IF Len(executed) < 5 THEN Len(executed) ELSE 5)
             /\ HistoryIsTailOfExecuted)
    /\ [][(pc = "execute" /\ pc' = "loop") =>
             /\ Records(action_history'[Len(action_history')], consensus_action)
             /\ action_history'[Len(action_history')].success \in BOOLEAN
             /\ \A j \in 1..(Len(action_history') - 1) :
                   action_history'[j] =
                       action_history[Len(action_history) - Len(action_history') + 1 + j]]_vars
    /\ [][(pc \in {"loopcheck", "validate"}) => action_history' = action_history]_vars

\* C36 witness: a loop check that follows six executed actions sees five of
\* them, the first one gone
C36_OldestDropped ==
    /\ pc = "loopcheck"
    /\ Len(executed) = 6
    /\ Len(action_history) = 5
    /\ executed[1][2].type = "click"
    /\ action_history[1].type = "navigate"

\* ---------------------------------------------------------------- turn rows
\* the Execute step has returned an observation: the executed action has been
\* appended to the history
ExecuteReturned == pc = "execute" /\ action_history' # action_history

\* C37: a turn whose Execute call returns is written to the turn log with
\* success = true and validators ["ok"], whatever the judgement of the
\* observation that goes into the history entry.
C37_ReturnedTurnLoggedSuccessful ==
    [][ExecuteReturned =>
          /\ Len(rows') > Len(rows)
          /\ rows'[Len(rows) + 1].turn = turn_idx
          /\ rows'[Len(rows) + 1].success
          /\ rows'[Len(rows) + 1].validators = <<"ok">>
          /\ SubSeq(rows', 1, Len(rows)) = rows]_vars

\* C37 witness: the observation of turn 2 carried an error marker; the history
\* entry says failed and the row says success
C37_ErrorMarkerLoggedSuccessful ==
    /\ pc = "loop"
    /\ turn_idx = 2
    /\ ~LastEntry.success
    /\ rows[Len(rows)].turn = 2
    /\ rows[Len(rows)].success

\* ---------------------------------------------------------------- turn budget
\* C38: when every external call returns, the session ends; it runs at most
\* max_turns turns, calls the committee once per turn and never again in that
\* turn, and executes at most one action per turn, also when failed actions are
\* retried.
C38_TerminatesWithinBudget ==
    /\ <>(pc = "done")
    /\ [](turn_idx <= max_turns /\ Len(executed) <= turn_idx)
    /\ [][(pc' = "decide" /\ pc # "decide") =>
             (pc = "loop" /\ turn_idx' = turn_idx + 1)]_vars
    /\ [][(pc = "decide" /\ pc' # "decide") => pc' \in {"guardrails", "cleanup"}]_vars
    /\ [][(pc' = "execute" /\ pc # "execute") =>
             (pc = "validate" /\ Len(executed) < turn_idx)]_vars

\* C38 witness: the same click failed and was retried in every turn, and the
\* session ended when the budget ran out
C38_RetriedToTheEnd ==
    /\ pc = "done"
    /\ exit_path = "budget"
    /\ turn_idx = max_turns
    /\ Len(executed) = max_turns
    /\ \A j \in 1..Len(executed) : executed[j][2].type = "click"
    /\ \A j \in 1..Len(action_history) : ~action_history[j].success

\* ---------------------------------------------------------------- agent pool properties
CommitteeVoted ==
    /\ policy = "committee"
    /\ rpc = "returned"
    /\ actions_list # <<>>

\* C39: after the vote of _run_committee an agent's result is marked selected
\* exactly when the agent's own action has the winning type:target key, and
\* the verdict is the first valid action that carries the most frequent key.
C39_SelectedAreTheWinners ==
    CommitteeVoted =>
        LET winning_key == MostCommon(ActionKeys(actions_list))
        IN  /\ router_result.verdict = FirstWithKey(actions_list, winning_key)
            /\ \A p \in 1..Len(router_result.per_agent_results) :
                  router_result.per_agent_results[p].selected
                      <=> RouterKey(router_result.per_agent_results[p].action) = winning_key

FailoverReturned ==
    /\ policy = "failover"
    /\ rpc = "returned"

Passes(res) == res.schema_valid /\ res.goal_valid

\* C40: _run_failover calls the models in configured order and stops at the
\* first agent whose action passes both checks, returning that action; when
\* no action passes, every model was called and the last agent's action is
\* returned with consensus false.
C40_FailoverFirstPassing ==
    /\ policy = "failover" =>
          /\ router_calls = SubSeq(model_names, 1, Len(router_calls))
          /\ \A p \in 1..Len(per_agent_results) :
                /\ per_agent_results[p].model = model_names[p]
                /\ per_agent_results[p].schema_valid = schema_check(per_agent_results[p].action)
                /\ per_agent_results[p].goal_valid =
                      goal_bias_check(per_agent_results[p].action, looking_to_signup)
    /\ FailoverReturned =>
          LET results == router_result.per_agent_results
              n == Len(results)
          IN  /\ results = per_agent_results
              /\ Len(router_calls) = n
              /\ router_result.verdict = results[n].action
              /\ \A p \in 1..(n - 1) : ~Passes(results[p])
              /\ router_result.consensus = Passes(results[n])
              /\ ~Passes(results[n]) => n = Len(model_names)

\* C40 witness: the first agent failed the goal check, the second passed, and
\* the third was never asked
C40_SecondAgentReturned ==
    /\ FailoverReturned
    /\ Len(router_calls) = 2
    /\ ~Passes(per_agent_results[1])
    /\ router_result.consensus
    /\ router_result.verdict.target = "#signup"
====
